---- MODULE Spec2Model ----
(***************************************************************************)
(* A model of garlic, an asynchronous client for the Onionoo API:          *)
(* src/garlic/client.py (Cache, Client, the parameter decorator and        *)
(* deserialise_response), src/garlic/exc.py and src/garlic/utils.py.       *)
(*                                                                         *)
(* A client runs coroutines ("tasks") under a cooperative scheduler: a     *)
(* task runs until it awaits the transport (asks.request) and is resumed   *)
(* by the transport's answer.  The steps of a task between two awaits are  *)
(* separate actions, so that the clock (datetime.utcnow) may advance       *)
(* between two reads of it, but no other task runs between them.           *)
(***************************************************************************)
EXTENDS Integers, Sequences, FiniteSets, TLC

\* ------------------------------------------------------------------ bounds
\* The clock runs from 0 to MaxTime (whole seconds).
MaxTime == 3
\* cache_ttl ranges over 0..MaxTTL seconds.
MaxTTL == 1
\* max_retries ranges over 0..MaxRetries.
MaxRetries == 2

VARIABLES
    enable_cache,   \* Cache.enable_cache
    ttl,            \* Cache._ttl, in seconds
    max_retries,    \* Client._max_retries
    nested_call,    \* Cache._nested_call
    cache,          \* Cache._cache: key -> [value, timestamp]
    fetched,        \* history: key -> the clock value that update() read
    now,            \* datetime.utcnow()
    task,           \* the coroutines of the callers, one record per task
    input,          \* the arguments a function is applied to on its own
    output          \* and what it yields

vars == <<enable_cache, ttl, max_retries, nested_call, cache, fetched, now, task,
          input, output>>
config == <<enable_cache, ttl, max_retries, nested_call>>
pure == <<input, output>>

\* ------------------------------------------------------- Python values
\* Every Python value of the model is a record of one shape, so that any
\* two of them can be compared: a str, an int, a tuple, a dict (its items
\* in insertion order, each a (key, value) tuple), an enum member, None.
PyNone == [tag |-> "None", s |-> "", items |-> <<>>]
PyStr(s) == [tag |-> "str", s |-> s, items |-> <<>>]
PyInt(n) == [tag |-> "int", s |-> ToString(n), items |-> <<>>]
PyFlag(v) == [tag |-> "Flag", s |-> v, items |-> <<>>]
PyTuple(xs) == [tag |-> "tuple", s |-> "", items |-> xs]
PyDict(kvs) == [tag |-> "dict", s |-> "", items |-> kvs]
Kw(k, v) == PyTuple(<<PyStr(k), v>>)

\* The keys of a dict, as a set of strings (kwargs.keys()).
DictKeys(d) == {d.items[i].items[1].s : i \in 1..Len(d.items)}
\* d[k] for a key the dict holds.
DictGet(d, k) ==
    LET i == CHOOSE j \in 1..Len(d.items) : d.items[j].items[1].s = k
    IN d.items[i].items[2]
\* d[k] = v for a key the dict holds: the item keeps its place.
DictSet(d, k, v) ==
    PyDict([i \in 1..Len(d.items) |->
        IF d.items[i].items[1].s = k THEN Kw(k, v) ELSE d.items[i]])
\* d.pop(k, ...): the dict without the key.
DictPop(d, k) ==
    PyDict(SelectSeq(d.items, LAMBDA it : it.items[1].s # k))
\* d.update(e) for a key that d does not hold / {**d, k: v}.
DictAdd(d, k, v) == PyDict(Append(d.items, Kw(k, v)))

\* ------------------------------------------------------------ utils.py
\* timestamp.strftime(UTC_FORMAT): the clock counts whole seconds; the
\* formatted text is the decimal of the second count.
strftime(timestamp) == ToString(timestamp)

\* --------------------------------------------------------- Cache.gen_key
RECURSIVE tuplise(_)
tuplise(items) ==
    IF items = <<>> THEN <<>>
    ELSE LET key == Head(items).items[1]
             value == Head(items).items[2]
         IN (IF value.tag = "dict"
             THEN <<key, PyTuple(tuplise(value.items))>>
             ELSE <<PyTuple(<<key, value>>)>>) \o tuplise(Tail(items))

\* The key made of the keyword arguments alone.
gen_keyWithoutArgs(args, kwargs) == PyTuple(tuplise(kwargs.items))

\* cache_key = [*args]; cache_key.extend(tuplise(kwargs)); tuple(cache_key)
gen_key(args, kwargs) == PyTuple(args \o tuplise(kwargs.items))

\* ------------------------------------------------------------- Endpoint
EndpointBASE == "https://onionoo.torproject.org"
EndpointPath(op) == "/" \o op
Categories == {"summary", "details", "bandwidth", "weights", "clients", "uptime"}


\* --------------------------------------------- onionoo_parameterised
\* Every category operation restricting fields and nothing else.
RestrictFieldsOnly(op) == {"fields"}

\* The restrict set each category operation hands to the decorator.
Restrict(op) ==
    CASE op = "details" -> {}
      [] op = "clients" -> {"fields", "host_name", "country", "family", "flag", "contact"}
      [] OTHER -> {"fields"}

\* ",".join(xs) for a tuple of str.
RECURSIVE Join(_)
Join(xs) ==
    IF xs = <<>> THEN ""
    ELSE IF Len(xs) = 1 THEN xs[1].s
    ELSE xs[1].s \o "," \o Join(Tail(xs))

\* restrict & kwargs.keys() is non-empty: the call raises TypeError.
Rejected(op, kwargs) == Restrict(op) \cap DictKeys(kwargs) # {}

\* The if/elif chain that serialises order, fields and flag.
Serialise(kwargs) ==
    IF "order" \in DictKeys(kwargs)
    THEN DictSet(kwargs, "order", PyStr(Join(DictGet(kwargs, "order").items)))
    ELSE IF "fields" \in DictKeys(kwargs)
    THEN DictSet(kwargs, "fields", PyStr(Join(DictGet(kwargs, "fields").items)))
    ELSE IF "flag" \in DictKeys(kwargs)
    THEN DictSet(kwargs, "flag", PyStr(DictGet(kwargs, "flag").s))
    ELSE kwargs

\* ------------------------------------------------------ the transport
\* What asks.request can do: time out, or answer with a status code and a
\* body.  A 200 answer carries one of the payloads; any other, no body.
Payloads == {"P1", "P2"}
StatusCodes == {200, 304, 404, 503, 418}
Answers ==
    {[status_code |-> 200, body |-> p] : p \in Payloads}
    \cup {[status_code |-> c, body |-> ""] : c \in StatusCodes \ {200}}

\* --------------------------------------------- Client._request: handlers
\* A value of the program: a raw envelope, a typed envelope, the
\* not-modified marker, the transport's own response object, an exception.
Value(type, data) == [type |-> type, data |-> data]
NoValue == Value("None", "")
ExceptionTypes ==
    {"HTTPError", "BadRequest", "NotFound", "InternalServerError",
     "ServiceUnavailable", "TypeError"}

\* isinstance(retn, Exception), with ServiceUnavailable left out.
IsExceptionButUnavailable(v) == v.type \in ExceptionTypes \ {"ServiceUnavailable"}

\* The handlers without the entry for 500.
http_handlers_without_500(response) ==
    CASE response.status_code = 200 -> Value("PartialRawResponse", response.body)
      [] response.status_code = 304 -> Value("ContentNotChanged", ToString(response.status_code))
      [] response.status_code = 400 -> Value("BadRequest", ToString(response.status_code))
      [] response.status_code = 404 -> Value("NotFound", ToString(response.status_code))
      [] response.status_code = 503 -> Value("ServiceUnavailable", ToString(response.status_code))
      [] OTHER -> Value("HTTPError", ToString(response.status_code))

\* http_handlers.get(response.status_code, HTTPError)(response)
http_handlers(response) ==
    CASE response.status_code = 200 -> Value("PartialRawResponse", response.body)
      [] response.status_code = 304 -> Value("ContentNotChanged", ToString(response.status_code))
      [] response.status_code = 400 -> Value("BadRequest", ToString(response.status_code))
      [] response.status_code = 404 -> Value("NotFound", ToString(response.status_code))
      [] response.status_code = 500 -> Value("InternalServerError", ToString(response.status_code))
      [] response.status_code = 503 -> Value("ServiceUnavailable", ToString(response.status_code))
      [] OTHER -> Value("HTTPError", ToString(response.status_code))

\* isinstance(retn, Exception)
IsException(v) == v.type \in ExceptionTypes

\* What _request does with a response: raise the handler's exception, or
\* go on with its value.
Dispatch(response) ==
    [raised |-> IsException(http_handlers(response)), value |-> http_handlers(response)]

MaxRetriesExceeded == Value("HTTPError", "maximum retries exceeded, bailing")

\* ------------------------------------------------- deserialise_response
\* The relay and bridge classes each category operation decodes with.
RelayObj(op, kwargs) ==
    CASE op = "summary" -> "RelaySummary"
      [] op = "details" -> IF "fields" \in DictKeys(kwargs) THEN "PartialRelayDetails" ELSE "RelayDetails"
      [] op = "bandwidth" -> "RelayBandwidth"
      [] op = "weights" -> "RelayWeight"
      [] op = "clients" -> "None"
      [] op = "uptime" -> "RelayUptime"

BridgeObj(op, kwargs) ==
    CASE op = "summary" -> "BridgeSummary"
      [] op = "details" -> IF "fields" \in DictKeys(kwargs) THEN "PartialBridgeDetails" ELSE "BridgeDetails"
      [] op = "bandwidth" -> "BridgeBandwidth"
      [] op = "weights" -> "None"
      [] op = "clients" -> "BridgeClients"
      [] op = "uptime" -> "BridgeUptime"

\* A not-modified marker yields the transport's response it wraps; a raw
\* envelope yields a typed envelope of the same payload.
deserialise_response(response, relay_obj, bridge_obj) ==
    IF response.type = "ContentNotChanged"
    THEN Value("asks.Response", response.data)
    ELSE Value("Response", response.data)

\* -------------------------------------------------------------- types.py
\* A JSON object, and the keyword arguments and attributes made of it: for
\* every name, that it is absent, or the kind of value it holds: "json" (a
\* value as the server sent it), "datetime" (what decode_utc returns),
\* "ExitPolicy", "IntervaledHistory", or "None".
RelayDetailsRequired ==
    {"nickname", "fingerprint", "or_addresses", "last_seen",
     "last_changed_address_or_port", "first_seen", "running", "consensus_weight"}
\* The fields of the relay details classes: the eight without a default,
\* and of the optional ones those that from_json touches and one,
\* contact, that it passes through like all the others.
RelayDetailsFields ==
    RelayDetailsRequired
    \cup {"as_", "last_restarted", "exit_policy_summary", "exit_policy_v6_summary",
          "contact"}
\* The keys of a relay details document of the server.
RelayDetailsKeys == (RelayDetailsFields \ {"as_"}) \cup {"as"}

PartialBridgeDetailsFields ==
    {"nickname", "hashed_fingerprint", "or_addresses", "last_seen", "first_seen"}
\* The fields of BridgeDetailsBase: the six without a default and, of the
\* optional ones, flags, last_restarted and platform.
BridgeDetailsKeys ==
    PartialBridgeDetailsFields \cup {"running", "flags", "last_restarted", "platform"}

Keys ==
    RelayDetailsFields \cup RelayDetailsKeys \cup BridgeDetailsKeys
    \cup {"n", "f", "a", "r", "h", "addresses",
          "write_history", "read_history", "consensus_weight_fraction",
          "guard_probability", "middle_probability", "exit_probability",
          "uptime", "average_clients"}

Absent == "absent"
\* The JSON object that has the keys S.
RawElement(S) == [k \in Keys |-> IF k \in S THEN "json" ELSE Absent]
Present(json) == {k \in Keys : json[k] # Absent}

\* What from_json comes to: an object of a class, or an exception.
Decoded(cls, attrs) == [error |-> "", cls |-> cls, attrs |-> attrs]
Failed(error) == [error |-> error, cls |-> "", attrs |-> RawElement({})]

\* The statements of a from_json body run one after another on the dict,
\* until one raises.
Running(json) == [error |-> "", json |-> json]
\* json[dst] = convert(json.pop(src)): KeyError when src is absent.
PopInto(st, src, dst, kind) ==
    IF st.error # "" THEN st
    ELSE IF st.json[src] = Absent THEN [st EXCEPT !.error = "KeyError"]
    ELSE Running([[st.json EXCEPT ![src] = Absent] EXCEPT ![dst] = kind])
\* json[dst] = json.pop(src, None)
PopIntoOrNone(st, src, dst) ==
    IF st.error # "" THEN st
    ELSE Running([[st.json EXCEPT ![src] = Absent] EXCEPT
                     ![dst] = IF st.json[src] = Absent THEN "None" ELSE st.json[src]])
\* if guard in json: <statement>
IfIn(st, guard, then) ==
    IF st.error # "" THEN st
    ELSE IF st.json[guard] # Absent THEN then ELSE st

\* cls(**json) for a dataclass: TypeError for a keyword that is no field
\* and for a field without default that is not given; every field not
\* given is None.
Construct(cls, fields, required, st) ==
    IF st.error # "" THEN Failed(st.error)
    ELSE IF ~(Present(st.json) \subseteq fields) \/ ~(required \subseteq Present(st.json))
    THEN Failed("TypeError")
    ELSE Decoded(cls, [k \in Keys |->
             IF k \notin fields THEN Absent
             ELSE IF st.json[k] = Absent THEN "None" ELSE st.json[k]])

\* ---------------------------------------------------- types.py: ExitPolicy
\* A str as the sequence of its characters, each a str of length one.
Digits == <<"0", "1", "2", "3", "4", "5", "6", "7", "8", "9">>
DigitValue(c) == (CHOOSE i \in 1..Len(Digits) : Digits[i] = c) - 1

\* int(chunk) for a chunk of decimal digits.
RECURSIVE int(_)
int(chunk) ==
    IF Len(chunk) = 0 THEN 0
    ELSE 10 * int(SubSeq(chunk, 1, Len(chunk) - 1)) + DigitValue(chunk[Len(chunk)])

\* entry.split("-"): the pieces between the dashes, empty ones included.
RECURSIVE split(_)
split(entry) ==
    IF \A i \in 1..Len(entry) : entry[i] # "-" THEN <<entry>>
    ELSE LET i == CHOOSE j \in 1..Len(entry) :
                    entry[j] = "-" /\ \A k \in 1..(j - 1) : entry[k] # "-"
         IN <<SubSeq(entry, 1, i - 1)>> \o split(SubSeq(entry, i + 1, Len(entry)))

\* [int(chunk) for chunk in entry.split("-") if chunk]
chunks(entry) ==
    LET kept == SelectSeq(split(entry), LAMBDA c : c # <<>>)
    IN [i \in 1..Len(kept) |-> int(kept[i])]

\* set(range(a, b))
range(a, b) == a..(b - 1)

\* _parse_policy: the ports of the entries, one after another; chunks[0]
\* or chunks[1] of an entry without that many chunks raises IndexError.
RECURSIVE parse_policy(_)
parse_policy(policy) ==
    IF policy = <<>> THEN [error |-> "", ports |-> {}]
    ELSE LET cs == chunks(Head(policy))
             rest == parse_policy(Tail(policy))
         IN IF Len(cs) = 1
            THEN [rest EXCEPT !.ports = {cs[1]} \cup @]
            ELSE IF Len(cs) < 2
            THEN [error |-> "IndexError", ports |-> {}]
            ELSE [rest EXCEPT !.ports = range(cs[1], cs[2]) \cup @]

\* A policy summary of the server: for each of accept and reject, that
\* it is missing, or its array of entries.
Missing == [given |-> FALSE, array |-> <<>>]
Array(entries) == [given |-> TRUE, array |-> entries]

\* ExitPolicy.__init__: the attributes of the object that it sets, by the
\* names it sets them under; None becomes the empty set.
ExitPolicy_init(accept_policy, reject_policy) ==
    [accept_policy |-> accept_policy, reject_poilcy |-> reject_policy]

\* ExitPolicy.from_json: a side is parsed when json.get(side) is truthy,
\* that is given and not empty.
ExitPolicy_from_json(json) ==
    LET accept == IF json.accept.given /\ json.accept.array # <<>>
                  THEN parse_policy(json.accept.array)
                  ELSE [error |-> "", ports |-> {}]
        reject == IF json.reject.given /\ json.reject.array # <<>>
                  THEN parse_policy(json.reject.array)
                  ELSE [error |-> "", ports |-> {}]
    IN IF accept.error # "" THEN [error |-> accept.error]
       ELSE IF reject.error # "" THEN [error |-> reject.error]
       ELSE ExitPolicy_init(accept.ports, reject.ports)

\* -------------------------------------------------- types.py: GraphHistory
\* A sample of a history: null (None), or a number.
Null == [null |-> TRUE, v |-> 0]
Sample(v) == [null |-> FALSE, v |-> v]

denormaliseOnce(h) ==
    IF \E i \in 1..Len(h.values) : h.values[i].null
    THEN [h EXCEPT !.error = "TypeError"]
    ELSE [h EXCEPT !.values = [i \in 1..Len(h.values) |-> Sample(h.values[i].v * h.factor)],
                   !.factor = 1]

\* GraphHistory.denormalise: self.values = [value * self.factor for value
\* in self.values]; None * factor raises TypeError before the assignment.
denormalise(h) ==
    IF \E i \in 1..Len(h.values) : h.values[i].null
    THEN [h EXCEPT !.error = "TypeError"]
    ELSE [h EXCEPT !.values = [i \in 1..Len(h.values) |-> Sample(h.values[i].v * h.factor)]]

\* RelayDetails.from_json: the dict after its statements, and the object
\* made of it.
RelayDetails_statements(json) ==
    LET s1 == PopIntoOrNone(Running(json), "as", "as_")
        s2 == PopInto(s1, "last_seen", "last_seen", "datetime")
        s3 == PopInto(s2, "last_changed_address_or_port",
                      "last_changed_address_or_port", "datetime")
        s4 == PopInto(s3, "first_seen", "first_seen", "datetime")
        s5 == PopInto(s4, "last_restarted", "last_restarted", "datetime")
        s6 == PopInto(s5, "exit_policy_summary", "exit_policy_summary", "ExitPolicy")
        s7 == PopInto(s6, "exit_policy_v6_summary", "exit_policy_v6_summary", "ExitPolicy")
    IN s7
RelayDetails_from_json(json) ==
    Construct("RelayDetails", RelayDetailsFields, RelayDetailsRequired,
              RelayDetails_statements(json))

\* PartialRelayDetails.from_json
PartialRelayDetails_statements(json) ==
    LET s0 == Running(json)
        s1 == IfIn(s0, "as_", PopIntoOrNone(s0, "as", "as_"))
        s2 == IfIn(s1, "last_seen", PopInto(s1, "last_seen", "last_seen", "datetime"))
        s3 == IfIn(s2, "last_changed_address_or_port",
                   PopInto(s2, "last_changed_address_or_port",
                           "last_changed_address_or_port", "datetime"))
        s4 == IfIn(s3, "last_seen", PopInto(s3, "first_seen", "first_seen", "datetime"))
        s5 == IfIn(s4, "last_restarted",
                   PopInto(s4, "last_restarted", "last_restarted", "datetime"))
        s6 == IfIn(s5, "exit_policy_summary",
                   PopInto(s5, "exit_policy_summary", "exit_policy_summary", "ExitPolicy"))
        s7 == IfIn(s6, "exit_policy_v6_summary",
                   PopInto(s6, "exit_policy_v6_summary", "exit_policy_v6_summary",
                           "ExitPolicy"))
    IN s7
PartialRelayDetails_from_json(json) ==
    Construct("PartialRelayDetails", RelayDetailsFields, {}, PartialRelayDetails_statements(json))

\* PartialBridgeDetails.from_json
PartialBridgeDetails_statements(json) ==
    LET s0 == Running(json)
        s1 == IfIn(s0, "last_seen", PopInto(s0, "last_seen", "last_seen", "datetime"))
        s2 == IfIn(s1, "first_seen", PopInto(s1, "first_seen", "first_seen", "datetime"))
        s3 == IfIn(s2, "last_restarted",
                   PopInto(s2, "last_restarted", "last_restarted", "datetime"))
    IN s3
PartialBridgeDetails_from_json(json) ==
    Construct("PartialBridgeDetails", PartialBridgeDetailsFields, {},
              PartialBridgeDetails_statements(json))

\* The from_json methods that build their object from named keys,
\* cls(attr=json[key], ...): each argument is <<attribute, key, kind>>; a
\* key that is absent raises KeyError, other keys are ignored.
FromKeys(cls, arguments, json) ==
    IF \E i \in 1..Len(arguments) : json[arguments[i][2]] = Absent
    THEN Failed("KeyError")
    ELSE Decoded(cls, [k \in Keys |->
             IF \E i \in 1..Len(arguments) : arguments[i][1] = k
             THEN LET i == CHOOSE j \in 1..Len(arguments) : arguments[j][1] = k
                  IN arguments[i][3]
             ELSE Absent])

\* cls.from_json(json) for the class of the name; a name the client
\* passes to deserialise_response whose class has no from_json raises
\* AttributeError, and RelayUptime, which has no constructor that takes
\* arguments, raises TypeError once its arguments are computed.
from_json(cls, json) ==
    CASE cls = "RelayDetails" -> RelayDetails_from_json(json)
      [] cls = "PartialRelayDetails" -> PartialRelayDetails_from_json(json)
      [] cls = "PartialBridgeDetails" -> PartialBridgeDetails_from_json(json)
      [] cls = "BridgeDetails" -> Failed("AttributeError")
      [] cls = "RelaySummary" ->
            FromKeys(cls, <<<<"nickname", "n", "json">>, <<"fingerprint", "f", "json">>,
                            <<"addresses", "a", "json">>, <<"running", "r", "json">>>>, json)
      [] cls = "BridgeSummary" ->
            FromKeys(cls, <<<<"nickname", "n", "json">>, <<"hashed_fingerprint", "h", "json">>,
                            <<"running", "r", "json">>>>, json)
      [] cls \in {"RelayBandwidth", "BridgeBandwidth"} ->
            FromKeys(cls, <<<<"write_history", "write_history", "IntervaledHistory">>,
                            <<"read_history", "read_history", "IntervaledHistory">>,
                            <<"fingerprint", "fingerprint", "json">>>>, json)
      [] cls = "RelayWeight" ->
            FromKeys(cls, <<<<"consensus_weight_fraction", "consensus_weight_fraction",
                              "IntervaledHistory">>,
                            <<"guard_probability", "guard_probability", "IntervaledHistory">>,
                            <<"middle_probability", "middle_probability", "IntervaledHistory">>,
                            <<"exit_probability", "exit_probability", "IntervaledHistory">>,
                            <<"consensus_weight", "consensus_weight", "IntervaledHistory">>,
                            <<"fingerprint", "fingerprint", "json">>>>, json)
      [] cls = "BridgeClients" ->
            FromKeys(cls, <<<<"average_clients", "average_clients", "IntervaledHistory">>,
                            <<"fingerprint", "fingerprint", "json">>>>, json)
      [] cls = "RelayUptime" ->
            IF FromKeys(cls, <<<<"uptime", "uptime", "IntervaledHistory">>,
                               <<"flags", "flags", "IntervaledHistory">>,
                               <<"fingerprint", "fingerprint", "json">>>>, json).error # ""
            THEN Failed("KeyError")
            ELSE Failed("TypeError")
      [] cls = "BridgeUptime" ->
            FromKeys(cls, <<<<"uptime", "uptime", "IntervaledHistory">>,
                            <<"fingerprint", "fingerprint", "json">>>>, json)

\* The dict a from_json was given, once it has run: the details classes
\* assign to it, the others only read it.
json_after(cls, json) ==
    CASE cls = "RelayDetails" -> RelayDetails_statements(json).json
      [] cls = "PartialRelayDetails" -> PartialRelayDetails_statements(json).json
      [] cls = "PartialBridgeDetails" -> PartialBridgeDetails_statements(json).json
      [] OTHER -> json

\* ------------------------------------------ client.py: deserialise_response
\* A raw element that no decoder is applied to stays the dict it was.
Untouched(elems) == [i \in 1..Len(elems) |-> Decoded("dict", elems[i])]

DecodeAllSkipping(cls, elems) ==
    SelectSeq([i \in 1..Len(elems) |-> from_json(cls, elems[i])],
              LAMBDA d : d.error = "")

DecodeAllReversed(cls, elems) ==
    [i \in 1..Len(elems) |-> from_json(cls, elems[Len(elems) + 1 - i])]

\* The envelope that deserialise_response was given, once it has run:
\* internal = dataclasses.asdict(response) is a deep copy, and it is the
\* copy's elements that the decoders are given.
response_after(raw, relay_obj, bridge_obj) == raw

\* [obj.from_json(e) for e in elems]: the result of every element in
\* order; the comprehension raises what the first failing element raises.
DecodeAll(cls, elems) == [i \in 1..Len(elems) |-> from_json(cls, elems[i])]
FirstError(docs) ==
    IF \E i \in 1..Len(docs) : docs[i].error # ""
    THEN LET i == CHOOSE j \in 1..Len(docs) :
                    /\ docs[j].error # ""
                    /\ \A k \in 1..(j - 1) : docs[k].error = ""
         IN docs[i].error
    ELSE ""

\* The envelope metadata of ResponseBase: the fields other than relays
\* and bridges, the optional ones with their defaults.
MetaRequired == {"version", "relays_published", "bridges_published"}
MetaDefaults ==
    [version |-> "", relays_published |-> "", bridges_published |-> "",
     next_major_version_scheduled |-> "None", build_revision |-> "None",
     relays_skipped |-> "0", relays_truncated |-> "0",
     bridges_skipped |-> "0", bridges_truncated |-> "0"]

asdictRequiredOnly(meta) ==
    [k \in DOMAIN meta |-> IF k \in MetaRequired THEN meta[k] ELSE MetaDefaults[k]]

\* dataclasses.asdict(response), the metadata part: a copy, field by field.
asdict(meta) == [k \in DOMAIN meta |-> meta[k]]

\* What deserialise_response comes to for a raw envelope: a Response, or
\* the exception of the first element that fails to decode, relays
\* before bridges.
Raises(error) == [error |-> error, meta |-> MetaDefaults, relays |-> <<>>, bridges |-> <<>>]
deserialise_envelope(raw, relay_obj, bridge_obj) ==
    LET internal == asdict(raw.meta)
        relays == IF relay_obj # "None" THEN DecodeAll(relay_obj, raw.relays)
                  ELSE Untouched(raw.relays)
        bridges == IF bridge_obj # "None" THEN DecodeAll(bridge_obj, raw.bridges)
                   ELSE Untouched(raw.bridges)
    IN IF FirstError(relays) # "" THEN Raises(FirstError(relays))
       ELSE IF FirstError(bridges) # "" THEN Raises(FirstError(bridges))
       ELSE [error |-> "", meta |-> internal, relays |-> relays, bridges |-> bridges]

\* a == b for two documents that separate calls of from_json made. The
\* classes that @dataclass decorates compare their fields one by one;
\* the classes that define no __eq__ compare by identity, and two objects
\* made by separate calls are not the same object. ExitPolicy and
\* GraphHistory (the values of an IntervaledHistory) are of the second
\* sort, as are the bandwidth and clients documents; RelayWeight is
\* decorated but declares no field, so that any two of them are equal.
IdentityKinds == {"ExitPolicy", "IntervaledHistory"}
IdentityClasses == {"RelayBandwidth", "BridgeBandwidth", "BridgeClients"}
eq(a, b) ==
    /\ a.cls = b.cls
    /\ a.cls \notin IdentityClasses
    /\ \/ a.cls = "RelayWeight"
       \/ \A k \in Keys : /\ a.attrs[k] = b.attrs[k]
                          /\ a.attrs[k] \notin IdentityKinds

\* a == b for two responses that separate calls of deserialise_response
\* made: Response is a dataclass, its lists compare element by element.
Response_eq(a, b) ==
    /\ a.meta = b.meta
    /\ Len(a.relays) = Len(b.relays)
    /\ Len(a.bridges) = Len(b.bridges)
    /\ \A i \in 1..Len(a.relays) : eq(a.relays[i], b.relays[i])
    /\ \A i \in 1..Len(a.bridges) : eq(a.bridges[i], b.bridges[i])

\* ----------------------------------------------------------------- Cache
\* The comparison of Cache.lookup the other way round.
ExpiredFlipped(timestamp) == timestamp + ttl > now

\* timestamp + self._ttl < dt.datetime.utcnow()
Expired(timestamp) == timestamp + ttl < now

\* An assignment to the map that drops every other entry.
PutAlone(map, key, entry) == [k \in {key} |-> entry]

\* Cache.update: the map after self._cache[key] = (value, utcnow() + ttl).
Put(map, key, entry) ==
    [k \in DOMAIN map \cup {key} |-> IF k = key THEN entry ELSE map[k]]
\* Cache.update without its enable_cache test.
updateAlways(key, value) ==
    Put(cache, key, [value |-> value, timestamp |-> now + ttl])
\* An update that keeps the entry the key already has.
updateKeepingFirst(key, value) ==
    IF ~enable_cache \/ key \in DOMAIN cache THEN cache
    ELSE Put(cache, key, [value |-> value, timestamp |-> now + ttl])
update(key, value) ==
    IF ~enable_cache THEN cache
    ELSE Put(cache, key, [value |-> value, timestamp |-> now + ttl])
\* A lookup that renews the lifetime of the entry it finds.
getSliding(map, key) == [map EXCEPT ![key].timestamp = now + ttl]
\* The map after entry, timestamp = self._cache.get(key, (None, None)):
\* a read.
get(map, key) == map
\* history: the clock value update() read for the entry it wrote
noteFetched(key) ==
    IF ~enable_cache THEN fetched ELSE Put(fetched, key, now)


\* ----------------------------------------------------------------- tasks
\* What the first Cache.lookup of a request saw (history): the kind of hit,
\* the entry's value, and how the clock it read stood to the entry's
\* retrieval time T and TTL D: "before" (now < T+D) or "after" (now >= T+D).
NoObs == [kind |-> "none", value |-> NoValue, timestamp |-> 0, when |-> ""]

\* A task: where its coroutine stands (pc), the category operation and its
\* sanitised options (op, params), the keyword arguments of the _request
\* call now running (kwargs), the retry loop's index, the frames of the
\* check_entry_lifetime calls it is inside of (innermost last), the value
\* being returned or the outcome (ret); and, as history, what the first
\* lookup saw, the transport calls made, the number of cache writes, the
\* cache map as it was when the request was made and the options the
\* caller gave.
IdleTask ==
    [pc |-> "idle", op |-> "", params |-> PyDict(<<>>), kwargs |-> PyDict(<<>>),
     retry |-> 0, frames |-> <<>>, ret |-> NoValue,
     first |-> NoObs, log |-> <<>>, writes |-> 0, before |-> <<>>,
     given |-> PyDict(<<>>)]

\* The calls a caller may make: a category operation and its options.
Invocations ==
    {[op |-> "summary", kwargs |-> PyDict(<<Kw("limit", PyInt(1)), Kw("offset", PyInt(1))>>)],
     [op |-> "summary", kwargs |-> PyDict(<<Kw("offset", PyInt(1)), Kw("limit", PyInt(1))>>)]}

\* The positional arguments of every _request call: "GET" and the URL.
RequestArgs(op) == <<PyStr("GET"), PyStr(EndpointBASE \o EndpointPath(op))>>

\* The cache key of the request a task is making, as Cache.lookup computes
\* it (with the headers argument, when there is one) and as _request
\* computes it for update (after kwargs.pop("headers")).
LookupKey(tk) == gen_key(RequestArgs(tk.op), tk.kwargs)
\* The key for update computed before kwargs.pop("headers").
UpdateKeyBeforePop(tk) == gen_key(RequestArgs(tk.op), tk.kwargs)
UpdateKey(tk) == gen_key(RequestArgs(tk.op), DictPop(tk.kwargs, "headers"))

\* The headers _request sends: the headers argument, or {}, updated with
\* the default headers.
DefaultHeaders == PyDict(<<Kw("Accept-Encoding", PyStr("gzip"))>>)
\* The headers argument dropped: the default headers alone are sent.
SentHeadersDefaultsOnly(tk) == DefaultHeaders
SentHeaders(tk) ==
    LET given == IF "headers" \in DictKeys(tk.kwargs)
                 THEN DictGet(tk.kwargs, "headers") ELSE PyDict(<<>>)
    IN PyDict(given.items \o DefaultHeaders.items)

\* The If-Modified-Since header of the request sent, "" when it has none.
IfModifiedSince(tk) ==
    IF "If-Modified-Since" \in DictKeys(SentHeaders(tk))
    THEN DictGet(SentHeaders(tk), "If-Modified-Since").s ELSE ""

TimeoutAnswer == [status_code |-> 0, body |-> "RequestTimeout"]

\* No task is between two awaits: the scheduler may run or resume one.
CpuFree == \A t \in DOMAIN task : task[t].pc \notin {"lookup", "return"}

\* The cache replacing the exception of a fetch it made by one of its own.
RaisedWrapped(tk, exc) ==
    [tk EXCEPT !.pc = "done",
               !.ret = IF tk.frames # <<>> THEN Value("HTTPError", "revalidation failed")
                       ELSE exc,
               !.frames = <<>>, !.retry = 0, !.kwargs = PyDict(<<>>)]

\* The request ends: its exception reaches the caller through every frame.
Raised(tk, exc) ==
    [tk EXCEPT !.pc = "done", !.ret = exc, !.frames = <<>>,
               !.retry = 0, !.kwargs = PyDict(<<>>)]

\* The retry loop making one pass too many.
AttemptOnceMore(tk, retry) ==
    IF retry <= max_retries
    THEN [tk EXCEPT !.pc = "await", !.retry = retry]
    ELSE Raised(tk, MaxRetriesExceeded)

\* The retry loop giving up at the first timeout.
AttemptGivesUp(tk, retry) ==
    IF retry < max_retries /\ retry < 1
    THEN [tk EXCEPT !.pc = "await", !.retry = retry]
    ELSE Raised(tk, MaxRetriesExceeded)

\* for retry in range(self._max_retries): the next pass awaits the
\* transport, and the loop's end raises.
Attempt(tk, retry) ==
    IF retry < max_retries
    THEN [tk EXCEPT !.pc = "await", !.retry = retry]
    ELSE Raised(tk, MaxRetriesExceeded)

Init ==
    /\ enable_cache \in BOOLEAN
    /\ ttl \in 0..MaxTTL
    /\ max_retries \in 0..MaxRetries
    /\ nested_call = FALSE
    /\ cache = <<>>
    /\ fetched = <<>>
    /\ now = 0
    /\ task = [t \in {"t1"} |-> IdleTask]
    /\ input = PyNone
    /\ output = PyNone

\* The clock advances.
Tick ==
    /\ now < MaxTime
    /\ now' = now + 1
    /\ UNCHANGED <<config, pure, cache, fetched, task>>

\* A caller calls a category operation: the decorator rejects or
\* serialises the options, and the operation calls
\* self._request("GET", url, params=kwargs).
Call(t, inv) ==
    /\ CpuFree
    /\ task[t].pc \in {"idle", "done", "cancelled"}
    /\ task' = [task EXCEPT ![t] =
         IF Rejected(inv.op, inv.kwargs)
         THEN [IdleTask EXCEPT !.pc = "done", !.op = inv.op, !.params = inv.kwargs,
                               !.before = cache, !.given = inv.kwargs,
                               !.ret = Value("TypeError", "the following arguments are not allowed")]
         ELSE [IdleTask EXCEPT !.pc = "lookup", !.op = inv.op, !.before = cache,
                               !.given = inv.kwargs,
                               !.params = Serialise(inv.kwargs),
                               !.kwargs = PyDict(<<Kw("params", Serialise(inv.kwargs))>>)]]
    /\ UNCHANGED <<config, pure, cache, fetched, now>>

\* _request awaits Cache.lookup.  A bypass or a miss goes on to the retry
\* loop; a fresh hit returns the entry; a stale hit calls
\* check_entry_lifetime, which calls _request with the conditional header.
Lookup(t) ==
    LET tk == task[t]
        key == LookupKey(tk)
        obs(kind) ==
            IF tk.first.kind # "none" THEN tk.first
            ELSE IF kind \in {"bypass", "miss"}
            THEN [NoObs EXCEPT !.kind = kind]
            ELSE [kind |-> kind, value |-> cache[key].value,
                  timestamp |-> cache[key].timestamp,
                  when |-> IF now < fetched[key] + ttl THEN "before" ELSE "after"]
    IN
    /\ tk.pc = "lookup"
    /\ task' = [task EXCEPT ![t] =
         IF ~enable_cache \/ nested_call
         THEN [Attempt(tk, 0) EXCEPT !.first = obs("bypass")]
         ELSE IF key \notin DOMAIN cache
         THEN [Attempt(tk, 0) EXCEPT !.first = obs("miss")]
         ELSE IF Expired(cache[key].timestamp)
         THEN [tk EXCEPT !.first = obs("stale"),
                  !.frames = Append(tk.frames,
                      [key |-> key, kwargs |-> tk.kwargs,
                       timestamp |-> cache[key].timestamp, stage |-> 1]),
                  !.kwargs = DictAdd(tk.kwargs, "headers",
                      PyDict(<<Kw("If-Modified-Since",
                                  PyStr(strftime(cache[key].timestamp)))>>))]
         ELSE [tk EXCEPT !.first = obs("fresh"), !.pc = "return",
                         !.ret = cache[key].value]]
    /\ cache' = IF enable_cache /\ ~nested_call /\ key \in DOMAIN cache
                THEN get(cache, key) ELSE cache
    /\ UNCHANGED <<config, pure, fetched, now>>

\* asks.request raises RequestTimeout: the loop continues.
Timeout(t) ==
    LET tk == task[t] IN
    /\ CpuFree
    /\ tk.pc = "await"
    /\ task' = [task EXCEPT ![t] =
         Attempt([tk EXCEPT !.log = Append(tk.log,
                     [since |-> IfModifiedSince(tk), answer |-> TimeoutAnswer])],
                 tk.retry + 1)]
    /\ UNCHANGED <<config, pure, cache, fetched, now>>

\* asks.request returns a response: its handler's exception is raised, or
\* its value is stored under the key without headers and returned.
Respond(t, response) ==
    LET tk == [task[t] EXCEPT !.log = Append(task[t].log,
                   [since |-> IfModifiedSince(task[t]), answer |-> response])]
        retn == http_handlers(response)
    IN
    /\ CpuFree
    /\ tk.pc = "await"
    /\ IF IsException(retn)
       THEN /\ task' = [task EXCEPT ![t] = Raised(tk, retn)]
            /\ UNCHANGED <<cache, fetched>>
       ELSE /\ cache' = update(UpdateKey(tk), retn)
            /\ fetched' = noteFetched(UpdateKey(tk))
            /\ task' = [task EXCEPT ![t] =
                 [tk EXCEPT !.pc = "return", !.ret = retn, !.retry = 0,
                            !.writes = IF enable_cache THEN tk.writes + 1 ELSE tk.writes]]
    /\ UNCHANGED <<config, pure, now>>

\* The caller cancels the task while it awaits the transport: the await
\* raises the cancellation, which no except clause of _request or of the
\* cache catches, and the coroutine ends.
Cancelled == Value("CancelledError", "")
Cancel(t) ==
    /\ CpuFree
    /\ task[t].pc = "await"
    /\ task' = [task EXCEPT ![t] = [Raised(task[t], Cancelled) EXCEPT !.pc = "cancelled"]]
    /\ UNCHANGED <<config, pure, cache, fetched, now>>

\* _request returns a value.  To the category operation, which returns
\* what deserialise_response makes of it; or to check_entry_lifetime,
\* which repeats the request without the header after a not-modified
\* marker, and otherwise stores the value and returns it through lookup.
Return(t) ==
    LET tk == task[t]
        n == Len(tk.frames)
        f == tk.frames[n]
    IN
    /\ tk.pc = "return"
    /\ IF n = 0
       THEN /\ task' = [task EXCEPT ![t] =
                 [tk EXCEPT !.pc = "done", !.kwargs = PyDict(<<>>),
                     !.ret = deserialise_response(tk.ret,
                                 RelayObj(tk.op, tk.params), BridgeObj(tk.op, tk.params))]]
            /\ UNCHANGED <<cache, fetched>>
       ELSE IF f.stage = 1 /\ tk.ret.type = "ContentNotChanged"
       THEN /\ task' = [task EXCEPT ![t] =
                 [tk EXCEPT !.pc = "lookup", !.kwargs = f.kwargs, !.ret = NoValue,
                            !.frames = [tk.frames EXCEPT ![n].stage = 2]]]
            /\ UNCHANGED <<cache, fetched>>
       ELSE /\ cache' = update(f.key, tk.ret)
            /\ fetched' = noteFetched(f.key)
            /\ task' = [task EXCEPT ![t] =
                 [tk EXCEPT !.frames = SubSeq(tk.frames, 1, n - 1), !.kwargs = f.kwargs,
                            !.writes = IF enable_cache THEN tk.writes + 1 ELSE tk.writes]]
    /\ UNCHANGED <<config, pure, now>>

Next ==
    \/ Tick
    \/ \E t \in DOMAIN task, inv \in Invocations : Call(t, inv)
    \/ \E t \in DOMAIN task : Lookup(t)
    \/ \E t \in DOMAIN task : Timeout(t)
    \/ \E t \in DOMAIN task, response \in Answers : Respond(t, response)
    \/ \E t \in DOMAIN task : Cancel(t)
    \/ \E t \in DOMAIN task : Return(t)

Spec == Init /\ [][Next]_vars

\* ------------------------------------------------ two concurrent callers
\* One client with caching enabled, cache_ttl = 1 and max_retries = 1,
\* and two tasks that call it concurrently, each for one of two resources,
\* against a transport that answers every call, with a payload or with
\* "not modified": the tasks interleave at the transport awaits.
InvocationsTwo ==
    {[op |-> "summary", kwargs |-> PyDict(<<Kw("limit", PyInt(1))>>)],
     [op |-> "details", kwargs |-> PyDict(<<Kw("limit", PyInt(1))>>)]}

AnswersTwo ==
    {[status_code |-> 200, body |-> "P1"], [status_code |-> 304, body |-> ""]}

InitTwo ==
    /\ enable_cache = TRUE
    /\ ttl = 1
    /\ max_retries = 1
    /\ nested_call = FALSE
    /\ cache = <<>>
    /\ fetched = <<>>
    /\ now = 0
    /\ task = [t \in {"t1", "t2"} |-> IdleTask]
    /\ input = PyNone
    /\ output = PyNone

NextTwo ==
    \/ Tick
    \/ \E t \in DOMAIN task, inv \in InvocationsTwo : Call(t, inv)
    \/ \E t \in DOMAIN task : Lookup(t)
    \/ \E t \in DOMAIN task, response \in AnswersTwo : Respond(t, response)
    \/ \E t \in DOMAIN task : Return(t)

SpecTwo == InitTwo /\ [][NextTwo]_vars

\* The same client and two tasks that call it concurrently for one and
\* the same resource, against a transport that answers every call with
\* one of two payloads or with "not modified".
InvocationsRace ==
    {[op |-> "summary", kwargs |-> PyDict(<<Kw("limit", PyInt(1))>>)]}

AnswersRace ==
    {[status_code |-> 200, body |-> p] : p \in Payloads}
    \cup {[status_code |-> 304, body |-> ""]}

NextRace ==
    \/ Tick
    \/ \E t \in DOMAIN task, inv \in InvocationsRace : Call(t, inv)
    \/ \E t \in DOMAIN task : Lookup(t)
    \/ \E t \in DOMAIN task, response \in AnswersRace : Respond(t, response)
    \/ \E t \in DOMAIN task : Return(t)

SpecRace == InitTwo /\ [][NextRace]_vars

\* --------------------------------------------- the options of a call
\* One client with caching enabled and one caller that makes, again and
\* again, a call without options of its own choice (PlainInvocation) or
\* the call under study (input): any category operation with any of
\* order, fields and flag and at most one more option.
PlainInvocation == [op |-> "summary", kwargs |-> PyDict(<<Kw("limit", PyInt(1))>>)]

SerialisedOptions ==
    <<Kw("order", PyTuple(<<PyStr("a"), PyStr("-b")>>)),
      Kw("fields", PyTuple(<<PyStr("c"), PyStr("d")>>)),
      Kw("flag", PyFlag("Exit"))>>
OtherOptions ==
    {Kw("host_name", PyStr("h")), Kw("country", PyStr("de")), Kw("family", PyStr("F")),
     Kw("contact", PyStr("c")), Kw("limit", PyInt(1))}

InvocationsParams ==
    {[op |-> op, kwargs |-> PyDict(SelectSeq(SerialisedOptions,
                                       LAMBDA kw : kw.items[1].s \in chosen) \o more)] :
        op \in Categories,
        chosen \in SUBSET {"order", "fields", "flag"},
        more \in {<<>>} \cup {<<kw>> : kw \in OtherOptions}}

InitParams ==
    /\ enable_cache = TRUE
    /\ ttl = 1
    /\ max_retries = 1
    /\ nested_call = FALSE
    /\ cache = <<>>
    /\ fetched = <<>>
    /\ now = 0
    /\ task = [t \in {"t1"} |-> IdleTask]
    /\ input \in InvocationsParams
    /\ output = PyNone

NextParams ==
    \/ \E t \in DOMAIN task, inv \in {input, PlainInvocation} : Call(t, inv)
    \/ \E t \in DOMAIN task : Lookup(t)
    \/ \E t \in DOMAIN task, response \in AnswersTwo : Respond(t, response)
    \/ \E t \in DOMAIN task : Return(t)

SpecParams == InitParams /\ [][NextParams]_vars


\* ------------------------------------------- functions on their own
\* No client is running: the state of the specifications that apply one
\* function to arguments drawn from a set.
NoClient ==
    /\ enable_cache = FALSE
    /\ ttl = 0
    /\ max_retries = 0
    /\ nested_call = FALSE
    /\ cache = <<>>
    /\ fetched = <<>>
    /\ now = 0
    /\ task = <<>>

\* The status dispatch of _request, for every status code of three digits.
StatusRange == 100..599
NoOutcome == [raised |-> FALSE, value |-> NoValue]

InitStatus ==
    /\ NoClient
    /\ input \in {[status_code |-> 200, body |-> p] : p \in Payloads}
                 \cup {[status_code |-> c, body |-> ""] : c \in StatusRange \ {200}}
    /\ output = NoOutcome

HandleStatus ==
    /\ output = NoOutcome
    /\ output' = Dispatch(input)
    /\ UNCHANGED <<config, cache, fetched, now, task, input>>

SpecStatus == InitStatus /\ [][HandleStatus]_vars

\* Cache.gen_key, for two calls with the same options in two orders,
\* given as keyword arguments or inside params.
KeyOptions ==
    {Kw("fields", PyTuple(<<PyStr("a"), PyStr("b")>>)),
     Kw("offset", PyInt(1)),
     Kw("limit", PyInt(2))}
Orderings(S) ==
    {q \in [1..Cardinality(S) -> S] : \A i, j \in 1..Cardinality(S) : i # j => q[i] # q[j]}
NoKeys == [first |-> PyNone, second |-> PyNone]

\* key("GET", url, **options), or key("GET", url, params=options)
KeyOfCall(nested, options) ==
    gen_key(RequestArgs("details"),
            IF nested THEN PyDict(<<Kw("params", options)>>) ELSE options)

InitKey ==
    /\ NoClient
    /\ \E S \in SUBSET KeyOptions :
          \E a, b \in Orderings(S) :
             \E nested \in BOOLEAN :
                input = [nested |-> nested, first |-> PyDict(a), second |-> PyDict(b)]
    /\ output = NoKeys

GenKey ==
    /\ output = NoKeys
    /\ output' = [first |-> KeyOfCall(input.nested, input.first),
                  second |-> KeyOfCall(input.nested, input.second)]
    /\ UNCHANGED <<config, cache, fetched, now, task, input>>

SpecKey == InitKey /\ [][GenKey]_vars

\* The decoding of one element of a details response: get_details picks
\* the class from its options (fields given or not) and
\* deserialise_response applies the class's from_json to a copy of the
\* element, for every set of keys the element may have.
NoDecoded == Decoded("", RawElement({}))
DetailsOptions ==
    {PyDict(<<>>), PyDict(<<Kw("fields", PyStr("fingerprint,running"))>>)}

InitDecode ==
    /\ NoClient
    /\ \E kwargs \in DetailsOptions :
          \/ \E S \in SUBSET RelayDetailsKeys :
                input = [side |-> "relay", kwargs |-> kwargs, json |-> RawElement(S)]
          \/ \E S \in SUBSET BridgeDetailsKeys :
                input = [side |-> "bridge", kwargs |-> kwargs, json |-> RawElement(S)]
    /\ output = NoDecoded

DecodeElement ==
    /\ output = NoDecoded
    /\ output' = from_json(IF input.side = "relay"
                           THEN RelayObj("details", input.kwargs)
                           ELSE BridgeObj("details", input.kwargs),
                           input.json)
    /\ UNCHANGED <<config, cache, fetched, now, task, input>>

SpecDecode == InitDecode /\ [][DecodeElement]_vars

\* The lists of at most n elements of S.
SeqsUpTo(S, n) == UNION {[1..m -> S] : m \in 0..n}

\* The decoding of an exit policy summary: one side is any array of up to
\* MaxEntries entries (a port, or a range of two ports, of the ports
\* 1..MaxPort, and the port 12), or missing; the other side is missing,
\* empty, or one range.
MaxEntries == 3
MaxPort == 2

Port(p) == <<Digits[p + 1]>>
Entries ==
    {Port(p) : p \in 1..MaxPort}
    \cup {Port(a) \o <<"-">> \o Port(b) : a, b \in 1..MaxPort}
    \cup {Port(1) \o Port(2)}
Policies == {Missing} \cup {Array(es) : es \in SeqsUpTo(Entries, MaxEntries)}
FewPolicies == {Missing, Array(<<>>), Array(<<Port(1) \o <<"-">> \o Port(2)>>)}

NoPolicy == [error |-> "pending"]

InitPolicy ==
    /\ NoClient
    /\ \E p \in Policies :
          \E q \in FewPolicies :
             \/ input = [accept |-> p, reject |-> q]
             \/ input = [accept |-> q, reject |-> p]
    /\ output = NoPolicy

DecodePolicy ==
    /\ output = NoPolicy
    /\ output' = ExitPolicy_from_json(input)
    /\ UNCHANGED <<config, cache, fetched, now, task, input>>

SpecPolicy == InitPolicy /\ [][DecodePolicy]_vars

\* A history object of up to MaxSamples samples, each null or a number up
\* to MaxValue, with a factor up to MaxFactor, that its owner denormalises
\* up to MaxApplications times. Factors are whole numbers here: the
\* products are then exact, as they are for the floats of the server up
\* to rounding.
MaxSamples == 2
MaxValue == 2
MaxFactor == 3
MaxApplications == 2

Samples == {Null} \cup {Sample(v) : v \in 0..MaxValue}

InitHistory ==
    /\ NoClient
    /\ \E factor \in 0..MaxFactor :
          \E values \in SeqsUpTo(Samples, MaxSamples) :
             input = [factor |-> factor, values |-> values]
    /\ output = [error |-> "", factor |-> input.factor, values |-> input.values,
                 applied |-> 0]

Denormalise ==
    /\ output.error = ""
    /\ output.applied < MaxApplications
    /\ output' = [denormalise(output) EXCEPT !.applied = @ + 1]
    /\ UNCHANGED <<config, cache, fetched, now, task, input>>

SpecHistory == InitHistory /\ [][Denormalise]_vars

\* The decoding of a whole raw envelope by each category operation: up to
\* MaxElements relays and bridges, each a complete document of the
\* category, a document with the nickname alone, or an empty object.
MaxElements == 2

DocumentKeys(op, side) ==
    CASE op = "summary" -> IF side = "relay" THEN {"n", "f", "a", "r"} ELSE {"n", "h", "r"}
      [] op = "details" -> IF side = "relay" THEN RelayDetailsKeys ELSE BridgeDetailsKeys
      [] op = "bandwidth" -> {"fingerprint", "write_history", "read_history"}
      [] op = "weights" ->
            IF side = "relay"
            THEN {"fingerprint", "consensus_weight_fraction", "guard_probability",
                  "middle_probability", "exit_probability", "consensus_weight"}
            ELSE {"fingerprint"}
      [] op = "clients" ->
            IF side = "relay" THEN {"fingerprint"} ELSE {"fingerprint", "average_clients"}
      [] op = "uptime" ->
            IF side = "relay" THEN {"fingerprint", "uptime", "flags"}
            ELSE {"fingerprint", "uptime"}

Elements(op, side) ==
    {RawElement(DocumentKeys(op, side)), RawElement({"nickname"}), RawElement({})}

Metas ==
    {[MetaDefaults EXCEPT !.version = "8.0", !.relays_published = "2020-01-01 00:00:00",
                          !.bridges_published = "2020-01-01 01:00:00"],
     [version |-> "8.0", relays_published |-> "2020-01-01 00:00:00",
      bridges_published |-> "2020-01-01 01:00:00",
      next_major_version_scheduled |-> "2021-01-01", build_revision |-> "abc",
      relays_skipped |-> "1", relays_truncated |-> "2",
      bridges_skipped |-> "3", bridges_truncated |-> "4"]}

Pending == Raises("pending")

EnvelopesOf(op) ==
    {[op |-> op, kwargs |-> kwargs,
      raw |-> [meta |-> meta, relays |-> relays, bridges |-> bridges]] :
        kwargs \in {kw \in DetailsOptions : DictKeys(kw) \cap Restrict(op) = {}},
        meta \in Metas,
        relays \in SeqsUpTo(Elements(op, "relay"), MaxElements),
        bridges \in SeqsUpTo(Elements(op, "bridge"), MaxElements)}
EnvelopeInputs == UNION {EnvelopesOf(op) : op \in Categories}

InitEnvelope ==
    /\ NoClient
    /\ input \in EnvelopeInputs
    /\ output = Pending

DecodeEnvelope ==
    /\ output = Pending
    /\ output' = deserialise_envelope(input.raw, RelayObj(input.op, input.kwargs),
                                      BridgeObj(input.op, input.kwargs))
    /\ UNCHANGED <<config, cache, fetched, now, task, input>>

SpecEnvelope == InitEnvelope /\ [][DecodeEnvelope]_vars

\* --------------------------------------------------------------- history
\* The key a task's request is stored under: the key of its call without
\* the conditional header.
OriginalKey(tk) == gen_key(RequestArgs(tk.op), PyDict(<<Kw("params", tk.params)>>))

\* The transport calls a request has made: those answered or timed out,
\* and the one outstanding.
Calls(tk) == Len(tk.log) + (IF tk.pc = "await" THEN 1 ELSE 0)

IsTimeout(call) == call.answer = TimeoutAnswer
\* The calls that did not time out.
Answered(log) == SelectSeq(log, LAMBDA call : ~IsTimeout(call))

\* The first lookup of the task's request found an entry holding a 200
\* payload.
SawPayload(tk) ==
    /\ tk.first.kind \in {"fresh", "stale"}
    /\ tk.first.value.type = "PartialRawResponse"

\* Cache.gen_key for two requests as _request makes them: a category's
\* URL and the serialised options, each option with one of its values, in
\* any order.
OptionChoices ==
    {Kw("limit", PyInt(1)), Kw("limit", PyInt(2)),
     Kw("search", PyStr("a")), Kw("search", PyStr("1")),
     Kw("fields", PyStr("a,b"))}
OptionLists ==
    {q \in SeqsUpTo(OptionChoices, 3) :
        \A i, j \in 1..Len(q) : i # j => q[i].items[1] # q[j].items[1]}
Requests == {[op |-> op, params |-> PyDict(q)] : op \in {"summary", "details"}, q \in OptionLists}

InitKeyPair ==
    /\ NoClient
    /\ \E a, b \in Requests : input = [first |-> a, second |-> b]
    /\ output = NoKeys

GenKeyPair ==
    /\ output = NoKeys
    /\ output' = [first |-> OriginalKey(input.first), second |-> OriginalKey(input.second)]
    /\ UNCHANGED <<config, cache, fetched, now, task, input>>

SpecKeyPair == InitKeyPair /\ [][GenKeyPair]_vars

\* A category operation called MaxHits + 1 times for the same request,
\* without the entry expiring in between: the first call misses, the
\* transport answers with a raw envelope, _request stores it and the
\* operation decodes it; every later call is a fresh hit, which hands
\* the stored object itself to deserialise_response.
MaxHits == 2

HitsKey == OriginalKey([op |-> input.op, params |-> input.kwargs])

InitHits ==
    /\ enable_cache = TRUE
    /\ ttl = 0
    /\ max_retries = 1
    /\ nested_call = FALSE
    /\ cache = <<>>
    /\ fetched = <<>>
    /\ now = 0
    /\ task = <<>>
    /\ input \in EnvelopeInputs
    /\ output = <<>>

Populate ==
    /\ cache = <<>>
    /\ output' = <<deserialise_envelope(input.raw, RelayObj(input.op, input.kwargs),
                                        BridgeObj(input.op, input.kwargs))>>
    /\ cache' = [k \in {HitsKey} |->
                   [value |-> response_after(input.raw, RelayObj(input.op, input.kwargs),
                                             BridgeObj(input.op, input.kwargs)),
                    timestamp |-> now + ttl]]
    /\ fetched' = [k \in {HitsKey} |-> now]
    /\ UNCHANGED <<config, now, task, input>>

FreshHit ==
    /\ cache # <<>>
    /\ Len(output) <= MaxHits
    /\ ~Expired(cache[HitsKey].timestamp)
    /\ output' = Append(output,
                        deserialise_envelope(get(cache, HitsKey)[HitsKey].value,
                                             RelayObj(input.op, input.kwargs),
                                             BridgeObj(input.op, input.kwargs)))
    /\ cache' = [cache EXCEPT ![HitsKey].value =
                    response_after(@, RelayObj(input.op, input.kwargs),
                                   BridgeObj(input.op, input.kwargs))]
    /\ UNCHANGED <<config, fetched, now, task, input>>

SpecHits == InitHits /\ [][Populate \/ FreshHit]_vars

\* ---------------------------------------------------------------- claims

\* C1: with caching enabled, a request whose lookup finds a 200 payload
\* stored at time T with TTL D, at a time before T+D, is served from the
\* cache: it returns the stored value and never calls the transport.
C1_FreshBeforeExpiry ==
    \A t \in DOMAIN task :
        LET tk == task[t] IN
        (enable_cache /\ SawPayload(tk) /\ tk.first.when = "before")
        => /\ tk.first.kind = "fresh"
           /\ Calls(tk) = 0
           /\ tk.pc \in {"return", "done"}
           /\ tk.pc = "return" => tk.ret = tk.first.value
           /\ tk.pc = "done" => tk.ret = Value("Response", tk.first.value.data)

C1_Witness ==
    \E t \in DOMAIN task :
        /\ enable_cache /\ SawPayload(task[t]) /\ task[t].first.when = "before"
        /\ task[t].pc = "done"
        /\ task[t].ret.type = "Response"

\* C2: with caching enabled, a request whose lookup finds a 200 payload
\* stored at time T with TTL D, at a time at or after T+D, finds the entry
\* stale and revalidates: its first transport call carries
\* If-Modified-Since, and it does not return the stored value directly.
C2_StaleFromExpiry ==
    \A t \in DOMAIN task :
        LET tk == task[t] IN
        (enable_cache /\ SawPayload(tk) /\ tk.first.when = "after")
        => /\ tk.first.kind = "stale"
           /\ tk.log # <<>> => tk.log[1].since # ""


\* The transport is the stub of the revalidation test: it answers every
\* conditional call "not modified" and every other call with a payload.
StubNotModifiedThenPayload(log) ==
    \A i \in 1..Len(log) :
        /\ log[i].since # "" => log[i].answer.status_code = 304
        /\ log[i].since = "" => log[i].answer.status_code = 200

\* C3: a request that finds its entry stale, against a transport that
\* answers the conditional call 304 and the unconditional repeat 200 with
\* payload P, ends with exactly two transport calls and with P in the
\* cache under the request's key.
C3_NotModifiedThenRefetch ==
    \A t \in DOMAIN task :
        LET tk == task[t] IN
        (/\ tk.pc = "done" /\ tk.first.kind = "stale"
         /\ tk.log # <<>> /\ StubNotModifiedThenPayload(tk.log))
        => /\ Len(tk.log) = 2
           /\ OriginalKey(tk) \in DOMAIN cache
           /\ cache[OriginalKey(tk)].value
                  = Value("PartialRawResponse", tk.log[2].answer.body)

\* C4: the lookup made by the unconditional follow-up of a revalidation
\* (the second call of check_entry_lifetime) returns None whatever the
\* cache holds: _request goes on to its retry loop, it neither returns an
\* entry nor starts another revalidation.
C4_FollowUpLookupBypassed ==
    [][\A t \in DOMAIN task :
          (/\ task[t].pc = "lookup"
           /\ task[t].frames # <<>>
           /\ task[t].frames[Len(task[t].frames)].stage = 2
           /\ task'[t] # task[t])
          => task'[t].pc \in {"await", "done"}]_vars

\* C5: on a stale hit whose conditional call is answered 200 with payload
\* P there is no follow-up call: that answer is the request's last
\* transport call, the caller receives P, and the entry under the original
\* key (the key without the header) holds P with a newer timestamp, the
\* one update() computes from the clock it read; no entry is stored under
\* a key that has the header.
C5_ModifiedOnRevalidation ==
    \A t \in DOMAIN task :
        LET tk == task[t]
            ans == Answered(tk.log)
            key == OriginalKey(tk)
        IN
        (tk.first.kind = "stale" /\ ans # <<>> /\ ans[1].answer.status_code = 200)
        => /\ ans[1].since # ""
           /\ Len(ans) = 1
           /\ tk.log[Len(tk.log)] = ans[1]
           /\ tk.pc \in {"return", "done"}
           /\ key \in DOMAIN cache
           /\ cache[key].value = Value("PartialRawResponse", ans[1].answer.body)
           /\ cache[key].timestamp > tk.first.timestamp
           /\ cache[key].timestamp = fetched[key] + ttl
           /\ \A k \in DOMAIN cache :
                  \A i \in 1..Len(k.items) : k.items[i] # PyStr("headers")
           /\ tk.pc = "done" => tk.ret = Value("Response", ans[1].answer.body)

C5_Witness ==
    \E t \in DOMAIN task :
        /\ task[t].pc = "done"
        /\ task[t].first.kind = "stale"
        /\ Len(task[t].log) = 2
        /\ IsTimeout(task[t].log[1])
        /\ task[t].log[2].since # ""
        /\ task[t].log[2].answer.status_code = 200
        /\ task[t].log[2].answer.body # task[t].first.value.data

\* C6: a category operation that returns normally returns a typed
\* response envelope, never the transport's response or a not-modified
\* marker.  Stated for the transports that answer 304 to conditional
\* calls only, as an HTTP server does, and for the calls that did not
\* find a not-modified marker left in the cache by an earlier call: the
\* stale hits answered with 304 that the claim names.
C6_TypedEnvelope ==
    \A t \in DOMAIN task :
        LET tk == task[t] IN
        (/\ tk.pc = "done" /\ ~IsException(tk.ret)
         /\ tk.first.value.type # "ContentNotChanged"
         /\ \A i \in 1..Len(tk.log) :
                tk.log[i].answer.status_code = 304 => tk.log[i].since # "")
        => tk.ret.type = "Response"

\* C8: a fetch whose every transport call times out (none is answered,
\* none is cancelled) makes exactly max_retries calls, then raises the
\* "maximum retries exceeded" HTTPError, and writes nothing to the cache.
C8_RetryBound ==
    \A t \in DOMAIN task :
        LET tk == task[t] IN
        (/\ tk.first.kind \in {"bypass", "miss", "stale"}
         /\ tk.pc # "cancelled"
         /\ \A i \in 1..Len(tk.log) : IsTimeout(tk.log[i]))
        => /\ Calls(tk) <= max_retries
           /\ tk.writes = 0
           /\ tk.pc \in {"lookup", "await", "done"}
           /\ tk.pc = "done" => /\ Len(tk.log) = max_retries
                                /\ tk.ret = MaxRetriesExceeded

C8_Witness ==
    \E t \in DOMAIN task :
        /\ task[t].pc = "done"
        /\ max_retries = 2
        /\ Len(task[t].log) = 2
        /\ \A i \in 1..2 : IsTimeout(task[t].log[i])
        /\ task[t].ret = MaxRetriesExceeded

\* C9: a transport answer with a status other than 200 and 304 is the
\* request's last transport call, whatever retries remain: the request
\* ends there, raising the error of that status (NotFound for 404,
\* ServiceUnavailable for 503).
C9_ErrorStatusNotRetried ==
    \A t \in DOMAIN task :
        LET tk == task[t] IN
        \A i \in 1..Len(tk.log) :
            (~IsTimeout(tk.log[i]) /\ tk.log[i].answer.status_code \notin {200, 304})
            => /\ i = Len(tk.log)
               /\ tk.pc = "done"
               /\ IsException(tk.ret)
               /\ tk.ret.data = ToString(tk.log[i].answer.status_code)
               /\ tk.log[i].answer.status_code = 404 => tk.ret.type = "NotFound"
               /\ tk.log[i].answer.status_code = 503 => tk.ret.type = "ServiceUnavailable"

C9_Witness ==
    \E t \in DOMAIN task :
        /\ task[t].pc = "done"
        /\ max_retries = 2
        /\ Len(task[t].log) = 1
        /\ task[t].log[1].answer.status_code = 404
        /\ task[t].ret.type = "NotFound"


\* C7: two calls with the same verb, URL and options, the options given
\* in different orders (as keyword arguments or inside params), have
\* equal cache keys.
C7_KeywordOrderIrrelevant ==
    output # NoKeys => output.first = output.second

C11_TimeoutsInvisible ==
    \A t \in DOMAIN task :
        LET tk == task[t]
            ans == Answered(tk.log)
            retn == http_handlers(ans[1].answer)
            key == OriginalKey(tk)
        IN
        (tk.first.kind \in {"bypass", "miss"} /\ tk.pc # "cancelled")
        => /\ (ans = <<>> /\ Len(tk.log) < max_retries) => tk.pc = "await"
           /\ ans # <<>> =>
                /\ Len(ans) = 1
                /\ tk.log[Len(tk.log)] = ans[1]
                /\ Len(tk.log) <= max_retries
                /\ Calls(tk) = Len(tk.log)
                /\ IF IsException(retn)
                   THEN /\ tk.pc = "done"
                        /\ tk.ret = retn
                        /\ cache = tk.before
                   ELSE /\ tk.pc \in {"return", "done"}
                        /\ tk.pc = "return" => tk.ret = retn
                        /\ tk.pc = "done" =>
                              tk.ret = deserialise_response(retn,
                                  RelayObj(tk.op, tk.params), BridgeObj(tk.op, tk.params))
                        /\ cache = IF enable_cache
                                   THEN Put(tk.before, key,
                                            [value |-> retn, timestamp |-> fetched[key] + ttl])
                                   ELSE tk.before

C11_Witness ==
    \E t \in DOMAIN task :
        /\ enable_cache /\ max_retries = 2
        /\ task[t].pc = "done"
        /\ task[t].first.kind = "miss"
        /\ Len(task[t].log) = 2
        /\ IsTimeout(task[t].log[1])
        /\ task[t].log[2].answer.status_code = 200
        /\ task[t].ret.type = "Response"

\* C12: a request makes at most two fetches, the conditional one and its
\* follow-up, of at most max_retries transport calls each: it is never
\* inside a revalidation of a revalidation, it gets at most two answers,
\* and it makes at most 2 * max_retries calls.
C12_BoundedInvocations ==
    \A t \in DOMAIN task :
        /\ Len(task[t].frames) <= 1
        /\ Len(Answered(task[t].log)) <= 2
        /\ Calls(task[t]) <= 2 * max_retries

\* C13: a request that ends by raising (an error status or the retries
\* exhausted), on a miss or during a revalidation, leaves the cache map
\* exactly as it was when the request was made.
C13_RaiseLeavesCacheAlone ==
    \A t \in DOMAIN task :
        (task[t].pc = "done" /\ IsException(task[t].ret))
        => cache = task[t].before

C15_CancelWritesNothing ==
    \A t \in DOMAIN task :
        task[t].pc = "cancelled"
        => /\ task[t].ret = Cancelled
           /\ task[t].frames = <<>>
           /\ cache = task[t].before

\* C16: between a request's freshness check and that request's own cache
\* update no other request updates the entry of the same key: when a
\* request makes its first write, the entry of its key is as its lookup
\* found it (absent after a miss, the same value and timestamp after a
\* stale hit).
C16_CheckThenUpdateAtomic ==
    [][\A t \in DOMAIN task :
          LET tk == task[t]
              key == OriginalKey(tk)
          IN
          (tk.writes = 0 /\ task'[t].writes = 1)
          => IF tk.first.kind = "miss"
             THEN key \notin DOMAIN cache
             ELSE /\ key \in DOMAIN cache
                  /\ cache[key].value = tk.first.value
                  /\ cache[key].timestamp = tk.first.timestamp]_vars

\* C17: while the revalidation of one key is suspended at the transport,
\* the lookup of a concurrent request for another key, which has a fresh
\* entry, is bypassed by the guard: it returns None and the request goes
\* to the transport.
C17_GuardInterferes ==
    [][\A a, b \in DOMAIN task :
          LET key == OriginalKey(task[b]) IN
          (/\ a # b
           /\ task[a].pc = "await" /\ task[a].frames # <<>>
           /\ task[b].pc = "lookup" /\ task[b].first.kind = "none"
           /\ key # OriginalKey(task[a])
           /\ key \in DOMAIN cache /\ ~Expired(cache[key].timestamp)
           /\ task'[b] # task[b])
          => /\ task'[b].first.kind = "bypass"
             /\ task'[b].pc = "await"]_vars

\* C18: the nested-call guard is set exactly while a revalidation is in
\* progress: set in every state where some request is inside
\* check_entry_lifetime, on either path, and clear in every other state.
C18_GuardTracksRevalidation ==
    nested_call = (\E t \in DOMAIN task : task[t].frames # <<>>)

\* C19: with caching disabled the cache map is empty in every state,
\* every lookup returns None (no request sees an entry or starts a
\* revalidation), no transport call carries If-Modified-Since, and no
\* request is served without the transport: one that returns has had an
\* answer from it.
C19_DisabledCacheInert ==
    ~enable_cache
    => /\ cache = <<>>
       /\ \A t \in DOMAIN task :
             LET tk == task[t] IN
             /\ tk.first.kind \in {"none", "bypass"}
             /\ tk.frames = <<>>
             /\ \A i \in 1..Len(tk.log) : tk.log[i].since = ""
             /\ tk.pc = "await" => IfModifiedSince(tk) = ""
             /\ (tk.pc \in {"return", "done"} /\ ~IsException(tk.ret))
                => /\ Len(Answered(tk.log)) = 1
                   /\ tk.before = <<>>

C19_Witness ==
    \E t \in DOMAIN task :
        /\ ~enable_cache
        /\ task[t].pc = "done"
        /\ task[t].first.kind = "bypass"
        /\ task[t].ret = Value("Response", "P2")
        /\ Len(task[t].log) = 2
        /\ now = MaxTime

C21_DisallowedRejected ==
    \A t \in DOMAIN task :
        LET tk == task[t]
            disallowed ==
                CASE tk.op \in {"summary", "bandwidth", "weights", "uptime"} -> {"fields"}
                  [] tk.op = "clients" ->
                        {"fields", "host_name", "country", "family", "flag", "contact"}
                  [] OTHER -> {}
            rejected == tk.pc = "done" /\ tk.ret.type = "TypeError"
        IN
        tk.pc # "idle"
        => /\ rejected <=> (DictKeys(tk.given) \cap disallowed # {})
           /\ rejected => /\ tk.first.kind = "none"
                           /\ tk.log = <<>>
                           /\ tk.writes = 0
                           /\ cache = tk.before

C21_Witness ==
    \E t \in DOMAIN task :
        /\ task[t].pc = "done"
        /\ task[t].ret.type = "TypeError"
        /\ task[t].op = "clients"
        /\ DictKeys(task[t].given) = {"order", "flag"}
        /\ cache # <<>>

\* C22: in every call that validation lets through, each of order, fields
\* and flag that the caller gave is serialised in the parameters the
\* request is keyed and sent with: order and fields are the comma-joined
\* string of their elements, flag is its wire string; also when two or
\* three of them are given together.
C22_AllOptionsSerialised ==
    \A t \in DOMAIN task :
        LET tk == task[t] IN
        (tk.pc # "idle" /\ tk.ret.type # "TypeError")
        => /\ \A k \in DictKeys(tk.given) \cap {"order", "fields"} :
                 DictGet(tk.params, k) = PyStr(Join(DictGet(tk.given, k).items))
           /\ "flag" \in DictKeys(tk.given)
                 => DictGet(tk.params, "flag") = PyStr(DictGet(tk.given, "flag").s)
           /\ tk.pc \in {"lookup", "await"}
                 => DictGet(tk.kwargs, "params") = tk.params

\* The attributes of a decoded object that hold a value, and the attribute
\* a key of the server is documented to populate.
Populated(obj) == {k \in Keys : obj.attrs[k] \notin {Absent, "None"}}
AttributeOf(k) == IF k = "as" THEN "as_" ELSE k
Timestamps == {"last_seen", "first_seen", "last_changed_address_or_port", "last_restarted"}
FieldsGiven == "fields" \in DictKeys(input.kwargs)

\* C23: a details request without fields decodes a complete relay element
\* into RelayDetails with every attribute that has no default populated;
\* with fields given, whatever subset of the keys the element carries, it
\* decodes into PartialRelayDetails with exactly the attributes of those
\* keys populated and every other one unset; which of the two classes is
\* used follows from the presence of fields alone.
C23_VariantFollowsFields ==
    (output # NoDecoded /\ input.side = "relay")
    => /\ (~FieldsGiven /\ Present(input.json) = RelayDetailsKeys)
             => /\ output.error = ""
                /\ output.cls = "RelayDetails"
                /\ RelayDetailsRequired \subseteq Populated(output)
       /\ FieldsGiven
             => /\ output.error = ""
                /\ output.cls = "PartialRelayDetails"
                /\ Populated(output) = {AttributeOf(k) : k \in Present(input.json)}

\* C26: PartialRelayDetails.from_json succeeds for every subset of the
\* relay details keys: each timestamp key that is present becomes a
\* datetime, every other present key populates its attribute, and every
\* absent key leaves its attribute None.
C26_PartialRelaySucceeds ==
    (output # NoDecoded /\ input.side = "relay" /\ FieldsGiven)
    => /\ output.error = ""
       /\ \A k \in RelayDetailsKeys :
             /\ (k \in Present(input.json) /\ k \in Timestamps)
                   => output.attrs[k] = "datetime"
             /\ (k \in Present(input.json) /\ k \notin Timestamps)
                   => AttributeOf(k) \in Populated(output)
             /\ k \notin Present(input.json)
                   => output.attrs[AttributeOf(k)] = "None"

\* C27: PartialBridgeDetails.from_json succeeds for every subset of the
\* bridge details keys, running, flags and last_restarted among them, and
\* the attributes that hold a value are exactly those of the present keys.
C27_PartialBridgeSucceeds ==
    (output # NoDecoded /\ input.side = "bridge" /\ FieldsGiven)
    => /\ output.error = ""
       /\ output.cls = "PartialBridgeDetails"
       /\ Populated(output) = Present(input.json)

\* C28: RelayDetails.from_json succeeds on every element that has the
\* eight required keys, whichever of the optional keys it omits, and the
\* attribute of each omitted key is None.
C28_OptionalKeysOptional ==
    (/\ output # NoDecoded
     /\ input.side = "relay"
     /\ ~FieldsGiven
     /\ RelayDetailsRequired \subseteq Present(input.json))
    => /\ output.error = ""
       /\ \A k \in RelayDetailsKeys \ Present(input.json) :
             output.attrs[AttributeOf(k)] = "None"

\* Every element of the sequence is a complete document of the category.
AllComplete(elems, side) ==
    \A i \in 1..Len(elems) : elems[i] = RawElement(DocumentKeys(input.op, side))
AllOfClass(docs, cls) == \A i \in 1..Len(docs) : docs[i].error = "" /\ docs[i].cls = cls

\* C24: a details request without fields whose envelope holds n >= 1
\* complete bridge documents (and complete relay documents) returns a
\* typed response whose bridges are n BridgeDetails objects.
C24_BridgesDecodedComplete ==
    (/\ output # Pending
     /\ input.op = "details"
     /\ ~FieldsGiven
     /\ Len(input.raw.bridges) >= 1
     /\ AllComplete(input.raw.relays, "relay")
     /\ AllComplete(input.raw.bridges, "bridge"))
    => /\ output.error = ""
       /\ Len(output.bridges) = Len(input.raw.bridges)
       /\ AllOfClass(output.bridges, "BridgeDetails")

\* C25: for summary, bandwidth and uptime both sides are decoded, for
\* weights the relays only, for clients the bridges only: when the
\* elements of the decoded sides are complete documents the call returns
\* a typed response in which each decoded side holds one object per
\* element and the other side is the raw sequence as it was, whatever
\* its elements are.
C25_VariantPairPerCategory ==
    LET relaysDecoded == input.op \in {"summary", "bandwidth", "uptime", "weights"}
        bridgesDecoded == input.op \in {"summary", "bandwidth", "uptime", "clients"}
    IN (/\ output # Pending
        /\ input.op # "details"
        /\ relaysDecoded => AllComplete(input.raw.relays, "relay")
        /\ bridgesDecoded => AllComplete(input.raw.bridges, "bridge"))
       => /\ output.error = ""
          /\ Len(output.relays) = Len(input.raw.relays)
          /\ Len(output.bridges) = Len(input.raw.bridges)
          /\ \A i \in 1..Len(output.relays) :
                IF relaysDecoded THEN output.relays[i].cls \notin {"", "dict"}
                ELSE output.relays[i] = Decoded("dict", input.raw.relays[i])
          /\ \A i \in 1..Len(output.bridges) :
                IF bridgesDecoded THEN output.bridges[i].cls \notin {"", "dict"}
                ELSE output.bridges[i] = Decoded("dict", input.raw.bridges[i])

\* C29: when the decoder of a side fails on one of its elements the call
\* raises the decoder's exception (KeyError, TypeError or
\* AttributeError); a typed response is returned only when every
\* element of a decoded side was decoded, and then holds one object of
\* the side's class per element.
FailsToDecode(cls, elems) ==
    cls # "None" /\ \E i \in 1..Len(elems) : from_json(cls, elems[i]).error # ""

C29_DecodeFailureRaised ==
    LET relay_obj == RelayObj(input.op, input.kwargs)
        bridge_obj == BridgeObj(input.op, input.kwargs)
    IN output # Pending
       => /\ (FailsToDecode(relay_obj, input.raw.relays)
               \/ FailsToDecode(bridge_obj, input.raw.bridges))
                => output.error \in {"KeyError", "TypeError", "AttributeError"}
          /\ output.error = ""
                => /\ Len(output.relays) = Len(input.raw.relays)
                   /\ Len(output.bridges) = Len(input.raw.bridges)
                   /\ relay_obj # "None" => AllOfClass(output.relays, relay_obj)
                   /\ bridge_obj # "None" => AllOfClass(output.bridges, bridge_obj)

C29_Witness ==
    /\ input.op = "summary"
    /\ Len(input.raw.relays) = 2
    /\ from_json("RelaySummary", input.raw.relays[1]).error = ""
    /\ from_json("RelaySummary", input.raw.relays[2]).error = "KeyError"
    /\ output.error = "KeyError"

\* C30: the typed response that a call returns has the metadata of the
\* raw envelope, field for field.
C30_MetadataVerbatim ==
    (output # Pending /\ output.error = "") => output.meta = input.raw.meta

C30_Witness ==
    /\ output # Pending
    /\ output.error = ""
    /\ output.meta.build_revision = "abc"
    /\ output.meta.relays_skipped = "1"
    /\ Len(output.relays) = 2
    /\ output.relays[1].cls = "RelayBandwidth"
    /\ Len(output.bridges) = 1

\* C31: in a typed response each side has as many elements as the raw
\* side, and the i-th is what the side's decoder makes of the i-th raw
\* element by itself (the raw element, for a side that is not decoded).
DecodedAlone(cls, json) == IF cls = "None" THEN Decoded("dict", json) ELSE from_json(cls, json)

C31_LengthAndOrderKept ==
    (output # Pending /\ output.error = "")
    => /\ Len(output.relays) = Len(input.raw.relays)
       /\ Len(output.bridges) = Len(input.raw.bridges)
       /\ \A i \in 1..Len(input.raw.relays) :
             output.relays[i]
                = DecodedAlone(RelayObj(input.op, input.kwargs), input.raw.relays[i])
       /\ \A i \in 1..Len(input.raw.bridges) :
             output.bridges[i]
                = DecodedAlone(BridgeObj(input.op, input.kwargs), input.raw.bridges[i])

C31_Witness ==
    /\ output # Pending
    /\ output.error = ""
    /\ input.op = "details"
    /\ Len(output.relays) = 2
    /\ output.relays[1].cls = "PartialRelayDetails"
    /\ output.relays[1] # output.relays[2]
    /\ Len(output.bridges) = 2
    /\ output.bridges[1] # output.bridges[2]

\* The ports an entry stands for, a port "p" or a range "a-b" of which the
\* upper bound is excluded, and those of a side of a summary.
PortsOfEntry(entry) ==
    IF \A i \in 1..Len(entry) : entry[i] # "-"
    THEN {int(entry)}
    ELSE {p \in 0..9 : int(<<entry[1]>>) <= p /\ p < int(<<entry[3]>>)}
PortsOfSide(side) ==
    IF side.given THEN UNION {PortsOfEntry(side.array[i]) : i \in 1..Len(side.array)}
    ELSE {}

\* C32: the decoded exit policy has, as its accept_policy and as its
\* reject_policy, the union of the ports of the side's entries: the port
\* of a singleton, the ports a..b-1 of a range "a-b"; the empty set when
\* the side's array is empty or missing.
C32_ExitPolicyPorts ==
    output # NoPolicy
    => /\ "accept_policy" \in DOMAIN output
       /\ output.accept_policy = PortsOfSide(input.accept)
       /\ "reject_policy" \in DOMAIN output
       /\ output.reject_policy = PortsOfSide(input.reject)

NoNulls == \A i \in 1..Len(input.values) : ~input.values[i].null

\* C33: on a series without null samples, one denormalisation makes every
\* sample v into v*f and a second one into v*f*f, which is not v*f unless
\* f is 0 or 1 or v is 0; the factor stays what it was.
C33_DenormaliseNotIdempotent ==
    (NoNulls /\ output.applied >= 1)
    => /\ output.error = ""
       /\ output.factor = input.factor
       /\ Len(output.values) = Len(input.values)
       /\ \A i \in 1..Len(input.values) :
             LET v == input.values[i].v
                 f == input.factor
             IN /\ output.applied = 1 => output.values[i] = Sample(v * f)
                /\ output.applied = 2
                      => /\ output.values[i] = Sample(v * f * f)
                         /\ (f \notin {0, 1} /\ v # 0) => output.values[i] # Sample(v * f)

C33_Witness ==
    /\ NoNulls
    /\ output.applied = 2
    /\ input.factor = 2
    /\ Len(input.values) = 2
    /\ input.values[1] = Sample(1)
    /\ output.values[1] = Sample(4)

\* C40: denormalising a series that has null samples raises nothing,
\* keeps the number and the order of the samples, leaves each null
\* sample null and multiplies every other sample by the factor.
C40_NullSamplesKept ==
    output.applied = 1
    => /\ output.error = ""
       /\ Len(output.values) = Len(input.values)
       /\ \A i \in 1..Len(input.values) :
             IF input.values[i].null THEN output.values[i] = Null
             ELSE output.values[i] = Sample(input.values[i].v * input.factor)

\* C34: every value in the cache is a raw envelope, the payload of a 200
\* answer; the marker of a 304 answer is never a cache entry's value and
\* never what a hit hands back as the cached value.  Stated request by
\* request, for the transports that answer 304 to conditional calls
\* only: a request made when the cache held payloads only leaves it
\* holding payloads only, at every step.
OnlyPayloads(map) == \A k \in DOMAIN map : map[k].value.type = "PartialRawResponse"

C34_OnlyPayloadsCached ==
    \A t \in DOMAIN task :
        LET tk == task[t] IN
        (/\ OnlyPayloads(tk.before)
         /\ \A i \in 1..Len(tk.log) :
                tk.log[i].answer.status_code = 304 => tk.log[i].since # "")
        => /\ OnlyPayloads(cache)
           /\ tk.first.kind \in {"fresh", "stale"}
                 => tk.first.value.type = "PartialRawResponse"

\* C35: the transport call a request is waiting on carries an
\* If-Modified-Since header exactly when it is the first fetch of a
\* revalidation; that call has the verb, URL and parameters of the
\* request that found the stale entry, and the header's value is the
\* wire format of the entry's stored timestamp, which is the time the
\* entry was retrieved plus the TTL.
C35_ConditionalRequest ==
    \A t \in DOMAIN task :
        LET tk == task[t]
            n == Len(tk.frames)
            f == tk.frames[n]
        IN tk.pc = "await"
           => /\ IfModifiedSince(tk) # "" <=> (n > 0 /\ f.stage = 1)
              /\ IfModifiedSince(tk) # ""
                    => /\ DictPop(tk.kwargs, "headers") = f.kwargs
                       /\ gen_key(RequestArgs(tk.op), f.kwargs) = f.key
                       /\ DictKeys(DictGet(tk.kwargs, "headers")) = {"If-Modified-Since"}
                       /\ IfModifiedSince(tk) = strftime(f.timestamp)
                       /\ f.timestamp = cache[f.key].timestamp
                       /\ f.timestamp = fetched[f.key] + ttl

C35_Witness ==
    \E t \in DOMAIN task :
        /\ task[t].pc = "await"
        /\ ttl = 1
        /\ IfModifiedSince(task[t]) = "1"
        /\ OriginalKey(task[t]) \in DOMAIN fetched
        /\ fetched[OriginalKey(task[t])] = 0
        /\ Len(task[t].log) = 1
        /\ IsTimeout(task[t].log[1])

\* Two requests are the same request: the same URL, the same option
\* names, and for every name the same value.
SameRequest(a, b) ==
    /\ a.op = b.op
    /\ DictKeys(a.params) = DictKeys(b.params)
    /\ \A k \in DictKeys(a.params) : DictGet(a.params, k) = DictGet(b.params, k)

\* C36: two requests that differ in the URL, in the set of their option
\* names or in the value of an option have different cache keys.
C36_KeysSeparateRequests ==
    (output # NoKeys /\ ~SameRequest(input.first, input.second))
    => output.first # output.second

C36_Witness ==
    /\ output # NoKeys
    /\ input.first.op = "summary"
    /\ input.second.op = "details"
    /\ input.first.params = input.second.params
    /\ Len(input.first.params.items) = 2
    /\ output.first # output.second

\* C37: a request served by a fresh hit leaves the cache map as it was
\* when the request was made, the entry's value and timestamp and every
\* other entry: it writes nothing and calls nothing, and a later request
\* finds the entry with the lifetime it had.
C37_FreshHitReadsOnly ==
    \A t \in DOMAIN task :
        task[t].first.kind = "fresh"
        => /\ cache = task[t].before
           /\ task[t].writes = 0
           /\ task[t].log = <<>>
           /\ \A k \in DOMAIN cache : cache[k].timestamp = fetched[k] + ttl

C37_Witness ==
    \E t \in DOMAIN task :
        /\ task[t].pc = "done"
        /\ task[t].first.kind = "fresh"
        /\ task[t].first.value.type = "PartialRawResponse"
        /\ ttl = 1
        /\ now = 2
        /\ OriginalKey(task[t]) \in DOMAIN cache
        /\ cache[OriginalKey(task[t])].timestamp = 1

\* C38: decoding leaves the raw envelope in the cache as the transport
\* delivered it, its relays and its bridges, however many fresh hits
\* decode it; and the typed response that every hit returns is equal
\* (==) to the one that the call that stored the entry returned.
C38_DecodingLeavesEntryAlone ==
    cache # <<>>
    => /\ cache[HitsKey].value = input.raw
       /\ \A i \in 2..Len(output) :
            /\ output[i].error = output[1].error
            /\ output[1].error = "" => Response_eq(output[i], output[1])

\* Two requests for one key whose first lookups both missed, or both
\* found the entry stale.
Racing(t, u) ==
    /\ t # u
    /\ task[t].first.kind \in {"miss", "stale"}
    /\ task[u].first.kind = task[t].first.kind
    /\ OriginalKey(task[u]) = OriginalKey(task[t])
\* What the handlers made of the answer to the task's latest transport
\* call.
LatestAnswer(tk) ==
    IF tk.log = <<>> THEN NoValue ELSE http_handlers(tk.log[Len(tk.log)].answer)

\* C39: identical requests are not coalesced. Of two requests for one key
\* that both missed, or both found the entry stale, each has called the
\* transport itself by the time both have completed successfully; every
\* transport call of either that completes successfully overwrites the
\* entry of the key with its own response and the timestamp of that
\* moment; and nothing else changes the entry but the request whose
\* transport call completed last, storing that response again. So the
\* entry is that of the transport call that completed last.
C39_LastCompletionWins ==
    /\ [](\A t, u \in DOMAIN task :
            (/\ Racing(t, u)
             /\ task[t].pc = "done" /\ ~IsException(task[t].ret)
             /\ task[u].pc = "done" /\ ~IsException(task[u].ret))
            => /\ Answered(task[t].log) # <<>>
               /\ Answered(task[u].log) # <<>>
               /\ OriginalKey(task[t]) \in DOMAIN cache)
    /\ [][\A t, u \in DOMAIN task :
            LET key == OriginalKey(task[t]) IN
            Racing(t, u)
            => /\ (task[t].pc = "await" /\ task'[t].pc = "return")
                  => /\ task'[t].ret = LatestAnswer(task'[t])
                     /\ cache'[key] = [value |-> task'[t].ret,
                                       timestamp |-> now + ttl]
               /\ (key \in DOMAIN cache /\ cache'[key] # cache[key])
                  => \E w \in {t, u} :
                        /\ task[w].pc \in {"await", "return"}
                        /\ task'[w] # task[w]
                        /\ task[CHOOSE v \in {t, u} : v # w].pc
                              \notin {"lookup", "return"}
                        /\ cache'[key].value = LatestAnswer(task'[w])
                        /\ cache'[key].timestamp = now + ttl]_vars

\* Both tasks have missed and each awaits the transport; and later both
\* have completed, t1 with the first payload and t2 with the second,
\* and the entry holds the second, stored after the first.
C39_Witness ==
    /\ Racing("t1", "t2")
    /\ task["t1"].first.kind = "miss"
    /\ task["t1"].pc = "done"
    /\ task["t2"].pc = "done"
    /\ Len(task["t1"].log) = 1
    /\ Len(task["t2"].log) = 1
    /\ task["t1"].log[1].answer = [status_code |-> 200, body |-> "P1"]
    /\ task["t2"].log[1].answer = [status_code |-> 200, body |-> "P2"]
    /\ OriginalKey(task["t1"]) \in DOMAIN cache
    /\ cache[OriginalKey(task["t1"])].value = LatestAnswer(task["t2"])
    /\ cache[OriginalKey(task["t1"])].timestamp = 3
    /\ now = 2

====
